---------------------------- MODULE Spec2Model ----------------------------
(***************************************************************************)
(* State-machine model of the QoE Boost API (src/main.py).                 *)
(*                                                                         *)
(* The process serves HTTP requests on one asyncio event loop              *)
(* (uvicorn.run(app), main.py:391-393).  Every `async def` handler runs    *)
(* without interruption between two `await`s; the only `await` of the      *)
(* handlers modelled here is `await parse_body(request)`.  A handler is    *)
(* therefore two steps: ...Begin (the request arrives and the handler runs *)
(* up to the await) and ...Finish (the rest of the handler, all database   *)
(* calls included).  Handlers without an await are one step.  The plain    *)
(* `def` get_current_user runs in a worker thread beside the event loop:   *)
(* /auth/me is three steps, its arrival, the decoding of the token (where  *)
(* the clock is read) and the lookup of the user.                          *)
(*                                                                         *)
(* The modules crud, backend.models and backend.schemas are imported by    *)
(* main.py but are not part of the sources at hand; the operators that     *)
(* stand for them are written from the specification and say so.           *)
(*                                                                         *)
(* Time is counted in ticks, TicksPerSecond ticks to the second, so that   *)
(* the whole-second NumericDate of a JWT `exp` claim differs from the      *)
(* datetime it was computed from.  User records carry no created_at: no    *)
(* operation modelled here reads it.                                       *)
(***************************************************************************)
EXTENDS Naturals, Sequences, FiniteSets

\* ------------------------------------------------------------------ bounds

\* Concurrent requests in flight (request slots).
MaxReqs == 2
\* Clock resolution: ticks per second.
TicksPerSecond == 2
\* Tokens are issued during the ticks 0..MaxIssue.
MaxIssue == 1
\* Feedback creates the clients send to the durable store.
MaxFeedback == 2
\* Network-log creates the clients send to the durable store.
MaxLogs == 2

Reqs == 1..MaxReqs

Names == {"alice", "bob"}
Emails == {"a@x.org", "b@x.org"}
Passwords == {"pw1", "pw2"}
Contents == {"slow"}
Locations == {"douala", "buea"}
Providers == {"mtn", "orange"}

\* A field a JSON object does not have.
Missing == "<missing>"

\* ------------------------------------------------------- program constants

ACCESS_TOKEN_EXPIRE_MINUTES == 30

ExpireTicks == ACCESS_TOKEN_EXPIRE_MINUTES * 60 * TicksPerSecond

\* The instants at which the clock is read: the ticks of issue, and the ticks
\* around the expiry of a token issued then.
Instants ==
    (0..MaxIssue) \cup { ExpireTicks - 1 + k : k \in 0..(MaxIssue + 1) }

\* ------------------------------------------------------------------ values

NoUser ==
    [id |-> 0, username |-> "", email |-> "", hashed_password |-> <<>>,
     provider |-> Missing, is_active |-> FALSE]

\* The columns of a user row, and those the UserResponse schema keeps.
UserColumns ==
    {"id", "username", "email", "hashed_password", "provider", "is_active"}

UserResponseFields == {"id", "username", "email", "provider", "is_active"}

\* A bearer credential.  sig is "good" (signed with SECRET_KEY, HS256), "bad"
\* (well formed, other signature) or "malformed" (not a JWT); sub is the
\* subject claim, NoSub when the payload has none; exp is the NumericDate of
\* the exp claim, in whole seconds.
NoSub == "<none>"

NoToken == [sub |-> "", exp |-> 0, sig |-> "none"]

MalformedToken == [sub |-> "", exp |-> 0, sig |-> "malformed"]

\* A request body.  shape is what json.loads makes of the text: "object" (a
\* JSON object, its fields below), "non_object" (JSON of another type: a
\* list, a number, null, a string) or "malformed" (not JSON; error is the
\* text of the exception json.loads raises).  wrapped says that the text as
\* sent is not JSON but starts and ends with a double quote: shape, the
\* fields and error then describe the text between the outer quotes.
NoBody ==
    [shape |-> "none", wrapped |-> FALSE, error |-> Missing,
     username |-> Missing, email |-> Missing, password |-> Missing,
     content |-> Missing, location |-> Missing, provider |-> Missing]

NoResp ==
    [status |-> 0, detail |-> "", www_authenticate |-> "", user |-> NoUser,
     fields |-> {}, token |-> NoToken, message |-> "", records |-> <<>>]

NoReq ==
    [kind |-> "none", body |-> NoBody, token |-> NoToken, location |-> Missing]

VARIABLES DATABASE_AVAILABLE, db_ok, users, feedbacks, network_logs, now, pc,
          req, resp

vars ==
    <<DATABASE_AVAILABLE, db_ok, users, feedbacks, network_logs, now, pc, req,
      resp>>


\* ----------------------------------------------------------------- helpers

\* raise HTTPException(status_code, detail): the response the framework sends.
HTTPException(code, text) ==
    [NoResp EXCEPT !.status = code, !.detail = text]

\* An exception no handler catches: the framework answers 500.
InternalServerError == HTTPException(500, "Internal Server Error")

\* cleaned = body_str[1:-1].replace('\\r\\n', '').replace('\\', ''), as it
\* acts on a field value: the escaped line breaks and every backslash go.
Unescaped(value) == IF value = "slow\\net" THEN "slownet" ELSE value

\* parse_body: what json.loads returns for the text, an object or not; for
\* a text that is not JSON but stands between double quotes, what it
\* returns for the text between them with its backslashes removed; HTTP 400
\* with the text of the exception when that does not decode either.
parse_body(body) ==
    IF body.shape \in {"object", "non_object"}
    THEN [ok |-> TRUE,
          data |-> IF body.wrapped
                   THEN [body EXCEPT
                           !.wrapped = FALSE,
                           !.username = Unescaped(body.username),
                           !.email = Unescaped(body.email),
                           !.password = Unescaped(body.password),
                           !.content = Unescaped(body.content),
                           !.location = Unescaped(body.location),
                           !.provider = Unescaped(body.provider)]
                   ELSE body,
          error |-> NoResp]
    ELSE [ok |-> FALSE, data |-> NoBody,
          error |-> HTTPException(400, "Invalid JSON: " \o body.error)]

\* UserCreate(**data): data must be a mapping; username, email and password
\* are required.
UserCreate(data) ==
    /\ data.shape = "object"
    /\ data.username # Missing
    /\ data.email # Missing
    /\ data.password # Missing

\* UserLogin(**data): data must be a mapping; username and password are
\* required.
UserLogin(data) ==
    /\ data.shape = "object"
    /\ data.username # Missing
    /\ data.password # Missing

\* FeedbackCreate(**data): data must be a mapping; the free-text content is
\* required.
FeedbackCreate(data) ==
    /\ data.shape = "object"
    /\ data.content # Missing

\* pwd_context (bcrypt): the hash of a password, and its verification.  The
\* salt is left out: no operation modelled here compares two hashes.
get_password_hash(password) == <<"bcrypt", password>>

verify_password(password, hashed) == hashed = <<"bcrypt", password>>

\* ------------------------------------------------------------ crud (users)

UsernameTaken(us, name) == \E i \in 1..Len(us) : us[i].username = name

EmailTaken(us, email) == \E i \in 1..Len(us) : us[i].email = email

\* crud.get_user_by_username: the row with that username, NoUser for None.
get_user_by_username(us, name) ==
    IF UsernameTaken(us, name)
    THEN us[CHOOSE i \in 1..Len(us) : us[i].username = name]
    ELSE NoUser

\* db.query(User).filter(User.email == user.email).first()
existing_email(us, email) ==
    IF EmailTaken(us, email)
    THEN us[CHOOSE i \in 1..Len(us) : us[i].email = email]
    ELSE NoUser

\* crud.create_user: hashes the password and inserts the row; the new row is
\* active and takes the next identifier.  The optional provider label is
\* left unset: the bodies modelled here carry none.
NewUser(us, data) ==
    [id |-> Len(us) + 1, username |-> data.username, email |-> data.email,
     hashed_password |-> get_password_hash(data.password),
     provider |-> Missing, is_active |-> TRUE]

create_user(us, data) == Append(us, NewUser(us, data))

\* crud.authenticate_user: the user when the username exists and the password
\* verifies, NoUser (a false value) otherwise.
authenticate_user(us, name, password) ==
    LET u == get_user_by_username(us, name)
    IN  IF u = NoUser THEN NoUser
        ELSE IF verify_password(password, u.hashed_password) THEN u
        ELSE NoUser

\* ----------------------------------------------------------- token service

\* jwt.encode of a datetime claim: timegm(utctimetuple()), whole seconds.
NumericDate(t) == t \div TicksPerSecond

\* Mutant of create_access_token: the data passed in is not copied into the
\* payload, so the token carries no sub claim.
create_access_token_no_sub(subject, t) ==
    [sub |-> NoSub, exp |-> NumericDate(t + ExpireTicks), sig |-> "good"]

\* Mutant of create_access_token: the lifetime is taken in seconds, not minutes.
create_access_token_seconds(subject, t) ==
    [sub |-> subject,
     exp |-> NumericDate(t + ACCESS_TOKEN_EXPIRE_MINUTES * TicksPerSecond),
     sig |-> "good"]

\* create_access_token(data={"sub": subject}) at clock reading t.
create_access_token(subject, t) ==
    [sub |-> subject, exp |-> NumericDate(t + ExpireTicks), sig |-> "good"]

\* jwt.decode(token, SECRET_KEY, algorithms=[ALGORITHM]) at clock reading t:
\* the payload, or the PyJWTError it raises.  The structure is checked first,
\* then the signature, then the exp claim (PyJWT 2: expired when exp <= now).
jwt_decode(tk, t) ==
    IF tk.sig \notin {"good", "bad"}
    THEN [ok |-> FALSE, error |-> "DecodeError", sub |-> NoSub]
    ELSE IF tk.sig = "bad"
    THEN [ok |-> FALSE, error |-> "InvalidSignatureError", sub |-> NoSub]
    ELSE IF tk.exp * TicksPerSecond <= t
    THEN [ok |-> FALSE, error |-> "ExpiredSignatureError", sub |-> NoSub]
    ELSE [ok |-> TRUE, error |-> "", sub |-> tk.sub]

\* Mutant of InvalidCredentials: the detail names the error that was caught.
InvalidCredentials_naming_error(error) == HTTPException(401, error)

\* except jwt.PyJWTError: the response to the error jwt.decode raised.
InvalidCredentials(error) ==
    HTTPException(401, "Invalid authentication credentials")

\* The response when the token's subject has no user row.
UserNotFound == HTTPException(401, "User not found")

\* security = HTTPBearer(): a request without bearer credentials (NoToken) is
\* refused before the function that depends on it is called.
NotAuthenticated == HTTPException(403, "Not authenticated")

\* Mutant of get_current_user_token: the token is decoded before the
\* storage mode is looked at.
get_current_user_token_decode_first(da, tk, t) ==
    LET payload == jwt_decode(tk, t)
    IN  IF ~payload.ok
        THEN [ok |-> FALSE, username |-> NoSub,
              error |-> InvalidCredentials(payload.error)]
        ELSE IF payload.sub = NoSub
        THEN [ok |-> FALSE, username |-> NoSub,
              error |-> HTTPException(401,
                            "Invalid authentication credentials")]
        ELSE IF ~da
        THEN [ok |-> FALSE, username |-> NoSub,
              error |-> HTTPException(503, "Database not available")]
        ELSE [ok |-> TRUE, username |-> payload.sub, error |-> NoResp]

\* get_current_user up to its database call (main.py:93-102), at clock
\* reading t: the username the token names, or the response raised.
get_current_user_token(da, tk, t) ==
    IF ~da
    THEN [ok |-> FALSE, username |-> NoSub,
          error |-> HTTPException(503, "Database not available")]
    ELSE LET payload == jwt_decode(tk, t)
         IN  IF ~payload.ok
             THEN [ok |-> FALSE, username |-> NoSub,
                   error |-> InvalidCredentials(payload.error)]
             ELSE IF payload.sub = NoSub
             THEN [ok |-> FALSE, username |-> NoSub,
                   error |-> HTTPException(401,
                                 "Invalid authentication credentials")]
             ELSE [ok |-> TRUE, username |-> payload.sub, error |-> NoResp]

\* get_current_user from its database call on (main.py:104-107): the row of
\* the username, or the response raised.
get_current_user_lookup(us, username, dbOk) ==
    IF ~dbOk
    THEN [user |-> NoUser, error |-> InternalServerError]
    ELSE LET u == get_user_by_username(us, username)
         IN  IF u = NoUser
             THEN [user |-> NoUser, error |-> UserNotFound]
             ELSE [user |-> u, error |-> NoResp]

\* get_current_user, the dependency of /auth/me, behind its own dependency
\* on security, when nothing happens between its clock reading t and its
\* lookup in the users us.  user is the row it returns, error the response
\* it raises instead.
get_current_user(da, tk, us, t, dbOk) ==
    IF tk = NoToken
    THEN [user |-> NoUser, error |-> NotAuthenticated]
    ELSE LET cred == get_current_user_token(da, tk, t)
         IN  IF ~cred.ok
             THEN [user |-> NoUser, error |-> cred.error]
             ELSE get_current_user_lookup(us, cred.username, dbOk)

\* The columns of the row a route sends: those of its response_model, every
\* column when the route names none.
RegisterResponseFields == UserColumns

MeResponseFields == UserResponseFields

\* The response of /auth/me to what get_current_user gave: the error it
\* raised, or the row it returned, as read_users_me returns it.
CurrentUserResponse(cur) ==
    IF cur.user = NoUser THEN cur.error
    ELSE [NoResp EXCEPT !.status = 200, !.user = cur.user,
                        !.fields = MeResponseFields]

\* GET /auth/me: read_users_me behind get_current_user, when nothing happens
\* between the clock reading and the lookup.
read_users_me(da, tk, us, t, dbOk) ==
    CurrentUserResponse(get_current_user(da, tk, us, t, dbOk))

\* Mutant of register: the email check is left out.
register_no_email_check(us, body, dbOk) ==
    LET parsed == parse_body(body)
    IN  IF ~parsed.ok
        THEN [users |-> us, resp |-> parsed.error]
        ELSE IF ~UserCreate(parsed.data) \/ ~dbOk
        THEN [users |-> us,
              resp |-> HTTPException(500, "Registration failed")]
        ELSE IF get_user_by_username(us, parsed.data.username) # NoUser
        THEN [users |-> us,
              resp |-> HTTPException(400, "Username already registered")]
        ELSE [users |-> create_user(us, parsed.data),
              resp |-> [NoResp EXCEPT !.status = 200,
                                      !.user = NewUser(us, parsed.data),
                                      !.fields = RegisterResponseFields]]

\* Mutant of register: the email is checked before the username.
register_email_first(us, body, dbOk) ==
    LET parsed == parse_body(body)
    IN  IF ~parsed.ok
        THEN [users |-> us, resp |-> parsed.error]
        ELSE IF ~UserCreate(parsed.data) \/ ~dbOk
        THEN [users |-> us,
              resp |-> HTTPException(500, "Registration failed")]
        ELSE IF existing_email(us, parsed.data.email) # NoUser
        THEN [users |-> us,
              resp |-> HTTPException(400, "Email already registered")]
        ELSE IF get_user_by_username(us, parsed.data.username) # NoUser
        THEN [users |-> us,
              resp |-> HTTPException(400, "Username already registered")]
        ELSE [users |-> create_user(us, parsed.data),
              resp |-> [NoResp EXCEPT !.status = 200,
                                      !.user = NewUser(us, parsed.data),
                                      !.fields = RegisterResponseFields]]

\* POST /auth/register, after the await: the users table and the response.
\* dbOk is whether the durable backend answers this request's queries.
register(us, body, dbOk) ==
    LET parsed == parse_body(body)
    IN  IF ~parsed.ok
        THEN [users |-> us, resp |-> parsed.error]
        ELSE IF ~UserCreate(parsed.data) \/ ~dbOk
        THEN [users |-> us,
              resp |-> HTTPException(500, "Registration failed")]
        ELSE IF get_user_by_username(us, parsed.data.username) # NoUser
        THEN [users |-> us,
              resp |-> HTTPException(400, "Username already registered")]
        ELSE IF existing_email(us, parsed.data.email) # NoUser
        THEN [users |-> us,
              resp |-> HTTPException(400, "Email already registered")]
        ELSE [users |-> create_user(us, parsed.data),
              resp |-> [NoResp EXCEPT !.status = 200,
                                      !.user = NewUser(us, parsed.data),
                                      !.fields = RegisterResponseFields]]

\* The response of login when authenticate_user returns a false value.
IncorrectCredentials ==
    [HTTPException(401, "Incorrect username or password")
        EXCEPT !.www_authenticate = "Bearer"]

\* Mutant of login: a username that does not exist is answered 404.
login_user_not_found(us, body, t, dbOk) ==
    LET parsed == parse_body(body)
    IN  IF ~parsed.ok THEN parsed.error
        ELSE IF ~UserLogin(parsed.data) \/ ~dbOk
        THEN HTTPException(500, "Login failed")
        ELSE IF get_user_by_username(us, parsed.data.username) = NoUser
        THEN HTTPException(404, "User not found")
        ELSE LET db_user == authenticate_user(us, parsed.data.username,
                                              parsed.data.password)
             IN  IF db_user = NoUser
                 THEN IncorrectCredentials
                 ELSE [NoResp EXCEPT
                         !.status = 200,
                         !.token = create_access_token(db_user.username, t)]

\* POST /auth/login, after the await, at clock reading t.
login(us, body, t, dbOk) ==
    LET parsed == parse_body(body)
    IN  IF ~parsed.ok THEN parsed.error
        ELSE IF ~UserLogin(parsed.data) \/ ~dbOk
        THEN HTTPException(500, "Login failed")
        ELSE LET db_user == authenticate_user(us, parsed.data.username,
                                              parsed.data.password)
             IN  IF db_user = NoUser
                 THEN IncorrectCredentials
                 ELSE [NoResp EXCEPT
                         !.status = 200,
                         !.token = create_access_token(db_user.username, t)]

\* --------------------------------------------------------- crud (feedback)

\* crud.create_feedback(db, feedback, user_id): the row inserted.
NewFeedback(fbs, data, user_id) ==
    [id |-> Len(fbs) + 1, user_id |-> user_id, content |-> data.content]

\* Mutant of OwnerExists: the owner is not looked up.
OwnerExists_unchecked(us, user_id) == TRUE

\* The owner of a feedback or network-log row must be a user that exists.
OwnerExists(us, user_id) == \E i \in 1..Len(us) : us[i].id = user_id

\* crud.get_feedbacks(db, user_id, skip, limit)
get_feedbacks(fbs, user_id, skip, limit) ==
    LET own == SelectSeq(fbs, LAMBDA f : f.user_id = user_id)
    IN  SubSeq(own, skip + 1,
               IF Len(own) < skip + limit THEN Len(own) ELSE skip + limit)

\* Mutant of FeedbackFailure: the handler falls back to the in-memory answer.
FeedbackFallback ==
    [NoResp EXCEPT !.status = 200,
                   !.message = "Feedback received (stored in memory)"]

\* The response of submit_feedback when the durable path raises.
FeedbackFailure == HTTPException(500, "Failed to submit feedback")

\* POST /feedback, after the await: the feedback table and the response.
submit_feedback(da, us, fbs, body, dbOk) ==
    LET parsed == parse_body(body)
    IN  IF ~da
        THEN IF ~parsed.ok
             THEN [feedbacks |-> fbs, resp |-> parsed.error]
             ELSE [feedbacks |-> fbs,
                   resp |-> [NoResp EXCEPT
                       !.status = 200,
                       !.message = "Feedback received (stored in memory)",
                       !.records = <<[id |-> 1, user_id |-> 0,
                                      content |-> parsed.data.content]>>]]
        ELSE IF \/ ~parsed.ok
                \/ ~dbOk
                \/ ~FeedbackCreate(parsed.data)
                \/ ~OwnerExists(us, 1)
        THEN [feedbacks |-> fbs, resp |-> FeedbackFailure]
        ELSE [feedbacks |-> Append(fbs, NewFeedback(fbs, parsed.data, 1)),
              resp |-> [NoResp EXCEPT
                  !.status = 200,
                  !.records = <<NewFeedback(fbs, parsed.data, 1)>>]]

\* GET /feedback
get_user_feedback(da, fbs, dbOk) ==
    IF ~da THEN [NoResp EXCEPT !.status = 200]
    ELSE IF ~dbOk THEN HTTPException(500, "Failed to get feedback")
    ELSE [NoResp EXCEPT !.status = 200,
                        !.records = get_feedbacks(fbs, 1, 0, 100)]

\* ----------------------------------------------------- crud (network logs)

\* NetworkLogCreate(**data): data must be a mapping; the location label and
\* the provider are required.
NetworkLogCreate(data) ==
    /\ data.shape = "object"
    /\ data.location # Missing
    /\ data.provider # Missing

\* crud.create_network_log(db, log, user_id): the row inserted.
NewNetworkLog(logs, data, user_id) ==
    [id |-> Len(logs) + 1, user_id |-> user_id, location |-> data.location,
     provider |-> data.provider]

\* crud.get_network_logs(db, user_id, skip, limit)
get_network_logs(logs, user_id, skip, limit) ==
    LET own == SelectSeq(logs, LAMBDA l : l.user_id = user_id)
    IN  SubSeq(own, skip + 1,
               IF Len(own) < skip + limit THEN Len(own) ELSE skip + limit)

\* The response of submit_network_log when the durable path raises.
NetworkLogFailure == HTTPException(500, "Failed to submit network log")

\* POST /network-logs, after the await: the log table and the response.
submit_network_log(da, us, logs, body, dbOk) ==
    LET parsed == parse_body(body)
    IN  IF ~da
        THEN IF ~parsed.ok
             THEN [network_logs |-> logs, resp |-> parsed.error]
             ELSE [network_logs |-> logs,
                   resp |-> [NoResp EXCEPT
                       !.status = 200,
                       !.message = "Network log received (stored in memory)",
                       !.records = <<[id |-> 1, user_id |-> 0,
                                      location |-> parsed.data.location,
                                      provider |-> parsed.data.provider]>>]]
        ELSE IF \/ ~parsed.ok
                \/ ~dbOk
                \/ ~NetworkLogCreate(parsed.data)
                \/ ~OwnerExists(us, 1)
        THEN [network_logs |-> logs, resp |-> NetworkLogFailure]
        ELSE [network_logs |->
                  Append(logs, NewNetworkLog(logs, parsed.data, 1)),
              resp |-> [NoResp EXCEPT
                  !.status = 200,
                  !.records = <<NewNetworkLog(logs, parsed.data, 1)>>]]

\* GET /network-logs
get_user_network_logs(da, logs, dbOk) ==
    IF ~da THEN [NoResp EXCEPT !.status = 200]
    ELSE IF ~dbOk THEN HTTPException(500, "Failed to get network logs")
    ELSE [NoResp EXCEPT !.status = 200,
                        !.records = get_network_logs(logs, 1, 0, 100)]

\* A path no route of the application matches: the router answers 404.
NotFound == HTTPException(404, "Not Found")

\* ------------------------------------------------------------------ inputs

\* A text that is not JSON, such as the empty body.
MalformedBody ==
    [NoBody EXCEPT !.shape = "malformed",
                   !.error = "Expecting value: line 1 column 1 (char 0)"]

\* JSON that is not an object, such as [1, 2].
NonObjectBody == [NoBody EXCEPT !.shape = "non_object"]

\* The text "{"a"}": not JSON, and not JSON without its outer quotes.
WrappedMalformedBody ==
    [NoBody EXCEPT !.shape = "malformed", !.wrapped = TRUE,
                   !.error = "Expecting ':' delimiter: line 1 column 5 (char 4)"]

\* The body as a client sends it between unescaped double quotes.
Wrapped(body) == [body EXCEPT !.wrapped = TRUE]

\* The bodies a client may send: texts that are not JSON, JSON that is not
\* an object, one JSON object that lacks the password, the complete objects
\* and one of them between double quotes.
RegisterBodies ==
    {MalformedBody, WrappedMalformedBody, NonObjectBody} \cup
    { Wrapped([NoBody EXCEPT !.shape = "object", !.username = "alice",
                             !.email = "a@x.org", !.password = "pw1"]) } \cup
    { [NoBody EXCEPT !.shape = "object", !.username = u, !.email = e,
                     !.password = Missing] :
        u \in {"alice"}, e \in {"a@x.org"} } \cup
    { [NoBody EXCEPT !.shape = "object", !.username = u, !.email = e,
                     !.password = p] :
        u \in Names, e \in Emails, p \in Passwords }

LoginBodies ==
    {MalformedBody, NonObjectBody} \cup
    { Wrapped([NoBody EXCEPT !.shape = "object", !.username = "alice",
                             !.password = "pw1"]) } \cup
    { [NoBody EXCEPT !.shape = "object", !.username = u, !.password = Missing] :
        u \in {"alice"} } \cup
    { [NoBody EXCEPT !.shape = "object", !.username = u, !.password = p] :
        u \in Names, p \in Passwords }

FeedbackBodies ==
    {MalformedBody, NonObjectBody} \cup
    { [NoBody EXCEPT !.shape = "object", !.content = c] :
        c \in Contents \cup {Missing} }

\* A feedback between double quotes whose content holds a backslash.
WrappedFeedbackBodies ==
    { Wrapped([NoBody EXCEPT !.shape = "object", !.content = "slow\\net"]) }

NetworkLogBodies ==
    {MalformedBody, NonObjectBody} \cup
    { [NoBody EXCEPT !.shape = "object", !.location = "douala"] } \cup
    { [NoBody EXCEPT !.shape = "object", !.location = "douala",
                     !.provider = p] : p \in Providers }

\* The exp claims of the tokens issued during the ticks 0..MaxIssue.
ExpClaims == { NumericDate(t + ExpireTicks) : t \in 0..MaxIssue }

\* The credentials a client may present: anything that is not a JWT, and the
\* well-formed tokens, signed with SECRET_KEY or not.
TokenInputs ==
    {MalformedToken} \cup
    [sub : Names \cup {NoSub}, exp : ExpClaims, sig : {"good", "bad"}]

\* What the Authorization header of a request may hold: nothing, or a
\* credential.
BearerInputs == {NoToken} \cup TokenInputs

\* The headers sent to the feedback and network-log endpoints: none, or the
\* token login has issued to a user at the start.
RecordTokens == {NoToken} \cup { create_access_token(u, 0) : u \in Names }

\* ----------------------------------------------------------------- actions

Init ==
    /\ DATABASE_AVAILABLE \in BOOLEAN
    /\ db_ok = TRUE
    /\ users = <<>>
    /\ feedbacks = <<>>
    /\ network_logs = <<>>
    /\ now = 0
    /\ pc = [r \in Reqs |-> "idle"]
    /\ req = [r \in Reqs |-> NoReq]
    /\ resp = [r \in Reqs |-> NoResp]

\* Slot r has no request in flight.
Free(r) == pc[r] \in {"idle", "done"}

\* A request of the given kind arrives on slot r and its handler runs up to
\* `await parse_body(request)`.
Suspend(r, kind, body) ==
    /\ pc' = [pc EXCEPT ![r] = "await_body"]
    /\ req' = [req EXCEPT ![r] = [NoReq EXCEPT !.kind = kind, !.body = body]]
    /\ resp' = [resp EXCEPT ![r] = NoResp]

\* The same, for a request that carries the Authorization header tk.
SuspendWith(r, kind, body, tk) ==
    /\ pc' = [pc EXCEPT ![r] = "await_body"]
    /\ req' = [req EXCEPT ![r] = [NoReq EXCEPT !.kind = kind, !.body = body,
                                                !.token = tk]]
    /\ resp' = [resp EXCEPT ![r] = NoResp]

\* The handler of slot r returns or raises: the response is sent.
Respond(r, response) ==
    /\ pc' = [pc EXCEPT ![r] = "done"]
    /\ resp' = [resp EXCEPT ![r] = response]

RegisterBegin(r, body) ==
    /\ Free(r)
    /\ IF DATABASE_AVAILABLE
       THEN Suspend(r, "register", body)
       ELSE /\ req' = [req EXCEPT ![r] =
                          [NoReq EXCEPT !.kind = "register", !.body = body]]
            /\ Respond(r, HTTPException(503, "Database not available"))
    /\ UNCHANGED <<DATABASE_AVAILABLE, db_ok, users, feedbacks, network_logs,
                   now>>

RegisterFinish(r) ==
    /\ pc[r] = "await_body"
    /\ req[r].kind = "register"
    /\ LET out == register(users, req[r].body, db_ok)
       IN  /\ users' = out.users
           /\ Respond(r, out.resp)
    /\ UNCHANGED <<DATABASE_AVAILABLE, db_ok, feedbacks, network_logs, now,
                   req>>

LoginBegin(r, body) ==
    /\ Free(r)
    /\ IF DATABASE_AVAILABLE
       THEN Suspend(r, "login", body)
       ELSE /\ req' = [req EXCEPT ![r] =
                          [NoReq EXCEPT !.kind = "login", !.body = body]]
            /\ Respond(r, HTTPException(503, "Database not available"))
    /\ UNCHANGED <<DATABASE_AVAILABLE, db_ok, users, feedbacks, network_logs,
                   now>>

LoginFinish(r) ==
    /\ pc[r] = "await_body"
    /\ req[r].kind = "login"
    /\ Respond(r, login(users, req[r].body, now, db_ok))
    /\ UNCHANGED <<DATABASE_AVAILABLE, db_ok, users, feedbacks, network_logs,
                   now, req>>

\* GET /auth/me arrives.  The framework resolves the dependencies one after
\* the other: security on the event loop, which refuses a request without
\* credentials, then get_current_user, a plain def, in a worker thread,
\* while the event loop goes on serving.
AuthMeBegin(r, tk) ==
    /\ Free(r)
    /\ req' = [req EXCEPT ![r] = [NoReq EXCEPT !.kind = "me", !.token = tk]]
    /\ IF tk = NoToken
       THEN Respond(r, NotAuthenticated)
       ELSE /\ pc' = [pc EXCEPT ![r] = "decode_token"]
            /\ resp' = [resp EXCEPT ![r] = NoResp]
    /\ UNCHANGED <<DATABASE_AVAILABLE, db_ok, users, feedbacks, network_logs,
                   now>>

\* The worker thread runs get_current_user up to its database call: the
\* clock is read here, by jwt.decode.
AuthMeDecode(r) ==
    /\ pc[r] = "decode_token"
    /\ LET cred == get_current_user_token(DATABASE_AVAILABLE, req[r].token,
                                          now)
       IN  IF cred.ok
           THEN /\ pc' = [pc EXCEPT ![r] = "lookup_user"]
                /\ UNCHANGED resp
           ELSE Respond(r, cred.error)
    /\ UNCHANGED <<DATABASE_AVAILABLE, db_ok, users, feedbacks, network_logs,
                   now, req>>

\* The worker thread runs the rest: the users are read here, for the
\* username decoded from the token, and read_users_me returns the row.
AuthMeLookup(r) ==
    /\ pc[r] = "lookup_user"
    /\ Respond(r, CurrentUserResponse(
                      get_current_user_lookup(users, req[r].token.sub, db_ok)))
    /\ UNCHANGED <<DATABASE_AVAILABLE, db_ok, users, feedbacks, network_logs,
                   now, req>>

\* The requests of the given kind waiting for their body.
InFlight(kind) ==
    Cardinality({ q \in Reqs : pc[q] = "await_body" /\ req[q].kind = kind })

\* The clients send a create only while the rows stored and the creates on
\* their way leave room under the bound of the durable table.
SubmitFeedbackBegin(r, body, tk) ==
    /\ Free(r)
    /\ DATABASE_AVAILABLE =>
          Len(feedbacks) + InFlight("feedback") < MaxFeedback
    /\ SuspendWith(r, "feedback", body, tk)
    /\ UNCHANGED <<DATABASE_AVAILABLE, db_ok, users, feedbacks, network_logs,
                   now>>

SubmitFeedbackFinish(r) ==
    /\ pc[r] = "await_body"
    /\ req[r].kind = "feedback"
    /\ LET out == submit_feedback(DATABASE_AVAILABLE, users, feedbacks,
                                  req[r].body, db_ok)
       IN  /\ feedbacks' = out.feedbacks
           /\ Respond(r, out.resp)
    /\ UNCHANGED <<DATABASE_AVAILABLE, db_ok, users, network_logs, now, req>>

GetUserFeedback(r, tk) ==
    /\ Free(r)
    /\ req' = [req EXCEPT ![r] = [NoReq EXCEPT !.kind = "list_feedback",
                                                !.token = tk]]
    /\ Respond(r, get_user_feedback(DATABASE_AVAILABLE, feedbacks, db_ok))
    /\ UNCHANGED <<DATABASE_AVAILABLE, db_ok, users, feedbacks, network_logs,
                   now>>

SubmitNetworkLogBegin(r, body, tk) ==
    /\ Free(r)
    /\ DATABASE_AVAILABLE =>
          Len(network_logs) + InFlight("network_log") < MaxLogs
    /\ SuspendWith(r, "network_log", body, tk)
    /\ UNCHANGED <<DATABASE_AVAILABLE, db_ok, users, feedbacks, network_logs,
                   now>>

SubmitNetworkLogFinish(r) ==
    /\ pc[r] = "await_body"
    /\ req[r].kind = "network_log"
    /\ LET out == submit_network_log(DATABASE_AVAILABLE, users, network_logs,
                                     req[r].body, db_ok)
       IN  /\ network_logs' = out.network_logs
           /\ Respond(r, out.resp)
    /\ UNCHANGED <<DATABASE_AVAILABLE, db_ok, users, feedbacks, now, req>>

GetUserNetworkLogs(r, tk) ==
    /\ Free(r)
    /\ req' = [req EXCEPT ![r] = [NoReq EXCEPT !.kind = "list_network_logs",
                                                !.token = tk]]
    /\ Respond(r, get_user_network_logs(DATABASE_AVAILABLE, network_logs,
                                        db_ok))
    /\ UNCHANGED <<DATABASE_AVAILABLE, db_ok, users, feedbacks, network_logs,
                   now>>

\* GET /recommendations?location=...: the path root() advertises.  The
\* application declares no route for it.
Recommendations(r, location) ==
    /\ Free(r)
    /\ req' = [req EXCEPT ![r] = [NoReq EXCEPT !.kind = "recommendations",
                                                !.location = location]]
    /\ Respond(r, NotFound)
    /\ UNCHANGED <<DATABASE_AVAILABLE, db_ok, users, feedbacks, network_logs,
                   now>>

\* The clock moves on to a later instant.
Tick ==
    /\ \E t \in Instants : t > now /\ now' = t
    /\ UNCHANGED <<DATABASE_AVAILABLE, db_ok, users, feedbacks, network_logs,
                   pc, req, resp>>

\* The active flag of a user row is cleared in the durable store.
DeactivateUser(i) ==
    /\ DATABASE_AVAILABLE
    /\ i \in 1..Len(users)
    /\ users[i].is_active
    /\ users' = [users EXCEPT ![i].is_active = FALSE]
    /\ UNCHANGED <<DATABASE_AVAILABLE, db_ok, feedbacks, network_logs, now,
                   pc, req, resp>>

\* What the server does with slot r for the auth paths.
Serve(r) ==
    \/ \E body \in RegisterBodies : RegisterBegin(r, body)
    \/ RegisterFinish(r)
    \/ \E body \in LoginBodies : LoginBegin(r, body)
    \/ LoginFinish(r)
    \/ \E tk \in BearerInputs : AuthMeBegin(r, tk)
    \/ AuthMeDecode(r)
    \/ AuthMeLookup(r)

\* What the server does with slot r for the feedback, network-log and
\* recommendation paths, whatever credentials the request carries.
ServeRecords(r) ==
    \/ \E body \in FeedbackBodies \cup WrappedFeedbackBodies,
          tk \in RecordTokens :
          SubmitFeedbackBegin(r, body, tk)
    \/ SubmitFeedbackFinish(r)
    \/ \E tk \in RecordTokens : GetUserFeedback(r, tk)
    \/ \E body \in NetworkLogBodies, tk \in RecordTokens :
          SubmitNetworkLogBegin(r, body, tk)
    \/ SubmitNetworkLogFinish(r)
    \/ \E tk \in RecordTokens : GetUserNetworkLogs(r, tk)
    \/ \E location \in Locations : Recommendations(r, location)

\* The durable backend stops or resumes answering the process's queries.
BackendChange ==
    /\ DATABASE_AVAILABLE
    /\ db_ok' = ~db_ok
    /\ UNCHANGED <<DATABASE_AVAILABLE, users, feedbacks, network_logs, now,
                   pc, req, resp>>

Environment ==
    \/ Tick
    \/ BackendChange
    \/ \E i \in DOMAIN users : DeactivateUser(i)

\* The server with MaxReqs requests in flight.
Next == (\E r \in Reqs : Serve(r) \/ ServeRecords(r)) \/ Environment

Spec == Init /\ [][Next]_vars

\* One request at a time on the auth paths, with the clock and the store.
NextSequential == Serve(1) \/ Environment

SpecSequential == Init /\ [][NextSequential]_vars

\* The register bodies of the concurrent requests: the password has no part
\* in the uniqueness checks, one value of it is enough.
ContestBodies == { b \in RegisterBodies : b.password \in {Missing, "pw1"} }

\* Concurrent registrations: MaxReqs register requests in flight.
NextRegister ==
    \/ \E r \in Reqs, body \in ContestBodies : RegisterBegin(r, body)
    \/ \E r \in Reqs : RegisterFinish(r)
    \/ BackendChange

SpecRegister == Init /\ [][NextRegister]_vars

\* The registrations that give the record paths their users.
OwnerBodies ==
    { b \in RegisterBodies :
        /\ b.password = "pw1"
        /\ <<b.username, b.email>> \in {<<"alice", "a@x.org">>,
                                         <<"bob", "b@x.org">>} }

\* One request at a time on the feedback, network-log and recommendation
\* paths, with the registrations that create the users.
NextRecords ==
    \/ ServeRecords(1)
    \/ \E body \in OwnerBodies : RegisterBegin(1, body)
    \/ RegisterFinish(1)
    \/ BackendChange

SpecRecords == Init /\ [][NextRecords]_vars

\* Concurrent creates: MaxReqs feedback and network-log submissions in flight.
NextCreate ==
    \/ \E r \in Reqs, body \in FeedbackBodies :
          SubmitFeedbackBegin(r, body, NoToken)
    \/ \E r \in Reqs : SubmitFeedbackFinish(r)
    \/ \E r \in Reqs, body \in NetworkLogBodies :
          SubmitNetworkLogBegin(r, body, NoToken)
    \/ \E r \in Reqs : SubmitNetworkLogFinish(r)
    \/ BackendChange

SpecCreate == Init /\ [][NextCreate]_vars

\* ------------------------------------------------------------- vocabulary

\* Slot r holds the response to a request of the given kind.
Done(r, kind) == pc[r] = "done" /\ req[r].kind = kind

\* What parse_body makes of the body of the request of slot r.
Data(r) == parse_body(req[r].body).data

\* A body that parses to an object with every field of UserCreate.
Complete(body) == parse_body(body).ok /\ UserCreate(parse_body(body).data)

\* The body of a login with the given credentials.
Credentials(u, p) ==
    [NoBody EXCEPT !.shape = "object", !.username = u, !.password = p]

\* Two rows are the same user record, whatever their active flags.
SameRecord(u, v) ==
    /\ u.id = v.id
    /\ u.username = v.username
    /\ u.email = v.email
    /\ u.hashed_password = v.hashed_password

\* Slot r holds the response to a register that created a user.
Registered(r) == Done(r, "register") /\ resp[r].user # NoUser

\* ----------------------------------------------------------------- claims

(***************************************************************************)
(* C1.  While the store answers, every (username, password) pair that      *)
(* register has just accepted logs in: login answers 200 with a token, and *)
(* /auth/me with that token, at every instant from now on that is before   *)
(* the token's expiry, answers 200 with the very record register created.  *)
(***************************************************************************)
C1_RegisterLoginAuthenticate ==
    \A r \in Reqs :
        (Registered(r) /\ db_ok) =>
            LET b == Data(r)
                lr == login(users, Credentials(b.username, b.password),
                            now, db_ok)
            IN  /\ lr.status = 200
                /\ lr.token # NoToken
                /\ \A t \in Instants :
                     (now <= t /\ t < lr.token.exp * TicksPerSecond) =>
                         LET me == read_users_me(DATABASE_AVAILABLE, lr.token,
                                                 users, t, db_ok)
                         IN  /\ me.status = 200
                             /\ SameRecord(me.user, resp[r].user)

\* C1's case: the second user has just been registered and the store answers.
C1_Witness ==
    \E r \in Reqs : Registered(r) /\ db_ok /\ resp[r].user.id = 2

\* The step in which the register handler of slot r completes.
RegisterCompletes(r) ==
    /\ pc[r] = "await_body"
    /\ req[r].kind = "register"
    /\ pc'[r] = "done"

(***************************************************************************)
(* C2.  A register that completes while the store answers, with a username *)
(* some user record already has (whatever its email) or with a new         *)
(* username and an email some user record already has, is answered         *)
(* Conflict (400) and leaves the user records as they were.                *)
(***************************************************************************)
C2_DuplicateRegisterConflict ==
    [][\A r \in Reqs :
         (/\ RegisterCompletes(r)
          /\ db_ok
          /\ Complete(req[r].body)
          /\ \/ UsernameTaken(users, Data(r).username)
             \/ EmailTaken(users, Data(r).email))
         => /\ resp'[r].status = 400
            /\ resp'[r].detail \in {"Username already registered",
                                    "Email already registered"}
            /\ resp'[r].user = NoUser
            /\ users' = users]_vars

\* C2's case: a new username with a taken email has been refused.
C2_Witness ==
    \E r \in Reqs :
        /\ Done(r, "register")
        /\ resp[r].status = 400
        /\ resp[r].detail = "Email already registered"
        /\ ~UsernameTaken(users, Data(r).username)
        /\ EmailTaken(users, Data(r).email)

NoDuplicateUsernames ==
    \A i, j \in DOMAIN users :
        users[i].username = users[j].username => i = j

\* Slots r1 and r2 hold the responses to two complete register requests with
\* the same username.
SameUsernameDone(r1, r2) ==
    /\ r1 # r2
    /\ Done(r1, "register") /\ Done(r2, "register")
    /\ Complete(req[r1].body) /\ Complete(req[r2].body)
    /\ Data(r1).username = Data(r2).username

\* No record other than those r1 and r2 created holds their username or one
\* of their emails: the two requests competed for a free username.
FreshContest(r1, r2) ==
    \A i \in DOMAIN users :
        (\/ users[i].username = Data(r1).username
         \/ users[i].email \in {Data(r1).email, Data(r2).email})
        => users[i].id \in {resp[r1].user.id, resp[r2].user.id}

ExactlyOneSucceeds(r1, r2) ==
    \/ resp[r1].status = 200 /\ resp[r2].status = 400
    \/ resp[r1].status = 400 /\ resp[r2].status = 200

(***************************************************************************)
(* C3 as claimed.  Without the durable backend (the in-memory mode), of    *)
(* two register requests with the same, free username exactly one succeeds *)
(* and the other receives Conflict; no two user records share a username.  *)
(* register keeps no in-memory user store: without the durable backend it  *)
(* raises 503 before it reads the body (main.py:192-193), so neither       *)
(* request succeeds and neither receives Conflict.                         *)
(***************************************************************************)
C3_AsClaimed ==
    /\ NoDuplicateUsernames
    /\ \A r1, r2 \in Reqs :
         (~DATABASE_AVAILABLE /\ SameUsernameDone(r1, r2)
             /\ FreshContest(r1, r2))
         => ExactlyOneSucceeds(r1, r2)

\* The password is not the one the user with that username registered.
WrongPassword(u, p) ==
    /\ UsernameTaken(users, u)
    /\ ~verify_password(p, get_user_by_username(users, u).hashed_password)

(***************************************************************************)
(* C4.  While the store answers, a login with an existing username and a   *)
(* wrong password and a login with a username that does not exist are both *)
(* answered 401, and the two responses are equal in status, body and       *)
(* headers; every client error a login with a JSON object has received is  *)
(* that same response.                                                     *)
(***************************************************************************)
C4_LoginFailuresIndistinguishable ==
    db_ok =>
        /\ \A u1, u2 \in Names, p1, p2 \in Passwords :
             (WrongPassword(u1, p1) /\ ~UsernameTaken(users, u2)) =>
                 LET wrong == login(users, Credentials(u1, p1), now, db_ok)
                     absent == login(users, Credentials(u2, p2), now, db_ok)
                 IN  /\ wrong.status = 401
                     /\ absent.status = 401
                     /\ wrong = absent
        /\ \A r \in Reqs, u \in Names, p \in Passwords :
             (/\ Done(r, "login")
              /\ parse_body(req[r].body).ok
              /\ resp[r].status \in 400..499
              /\ WrongPassword(u, p) \/ ~UsernameTaken(users, u))
             => resp[r] = login(users, Credentials(u, p), now, db_ok)

\* C4's case: a wrong password has been refused while another username is free.
C4_Witness ==
    \E r \in Reqs, u \in Names :
        /\ db_ok
        /\ Done(r, "login")
        /\ resp[r].status = 401
        /\ WrongPassword(Data(r).username, Data(r).password)
        /\ ~UsernameTaken(users, u)

\* The step in which the login handler of slot r issues a token.
TokenIssued(r) ==
    /\ pc[r] = "await_body"
    /\ req[r].kind = "login"
    /\ pc'[r] = "done"
    /\ resp'[r].status = 200

\* Validating token tk at instant t returns the subject sub.
ValidatesTo(tk, t, sub) ==
    LET cur == get_current_user(TRUE, tk, users, t, TRUE)
    IN  cur.user # NoUser /\ cur.user.username = sub

\* Validating token tk at instant t returns Invalid.
Invalid(tk, t) ==
    LET cur == get_current_user(TRUE, tk, users, t, TRUE)
    IN  /\ cur.user = NoUser
        /\ cur.error = HTTPException(401, "Invalid authentication credentials")

(***************************************************************************)
(* C5 as claimed.  A token issued at time t expires at t + 30 minutes:     *)
(* validating it at any instant strictly before t + 30 minutes returns the *)
(* subject it was issued for, at any instant from t + 30 minutes on        *)
(* returns Invalid.                                                        *)
(***************************************************************************)
C5_AsClaimed ==
    [][\A r \in Reqs :
         TokenIssued(r) =>
            LET tk == resp'[r].token
            IN  /\ tk.exp * TicksPerSecond = now + ExpireTicks
                /\ \A v \in Instants :
                     v >= now =>
                        IF v < now + ExpireTicks
                        THEN ValidatesTo(tk, v, Data(r).username)
                        ELSE Invalid(tk, v)]_vars

(***************************************************************************)
(* C5, amended.  A token issued at time t carries as expiry t + 30 minutes *)
(* truncated to the whole second: validating it at any instant strictly    *)
(* before that expiry returns the subject it was issued for, and at any    *)
(* instant from that expiry on, so at any instant from t + 30 minutes on,  *)
(* returns Invalid.                                                        *)
(***************************************************************************)
C5_TokenLifetime ==
    [][\A r \in Reqs :
         TokenIssued(r) =>
            LET tk == resp'[r].token
                expiry == tk.exp * TicksPerSecond
            IN  /\ expiry <= now + ExpireTicks
                /\ now + ExpireTicks < expiry + TicksPerSecond
                /\ \A v \in Instants :
                     v >= now =>
                        /\ v < expiry =>
                              ValidatesTo(tk, v, Data(r).username)
                        /\ v >= expiry => Invalid(tk, v)
                        /\ v >= now + ExpireTicks => Invalid(tk, v)]_vars

\* C5's case: a token has just been issued at an instant that is not a whole
\* second, so that its expiry is not the instant of issue plus 30 minutes.
C5_Witness ==
    \E r \in Reqs :
        /\ Done(r, "login")
        /\ resp[r].status = 200
        /\ resp[r].token.exp * TicksPerSecond # now + ExpireTicks
        /\ resp[r].token = create_access_token(Data(r).username, now)

(***************************************************************************)
(* C6 as claimed.  /auth/me succeeds only for a valid token whose subject  *)
(* resolves to a user record that exists and is active.                    *)
(***************************************************************************)
C6_AsClaimed ==
    \A r \in Reqs :
        (Done(r, "me") /\ resp[r].status = 200) =>
            /\ req[r].token.sig = "good"
            /\ resp[r].user # NoUser
            /\ resp[r].user.username = req[r].token.sub
            /\ resp[r].user.is_active

(***************************************************************************)
(* C7.  With the durable backend, any two credentials that jwt.decode      *)
(* rejects at the present instant, for a bad signature, for being          *)
(* malformed or for being expired, get the same response from /auth/me:    *)
(* 401, with no user in it.                                                *)
(***************************************************************************)
C7_InvalidTokensIndistinguishable ==
    DATABASE_AVAILABLE =>
        \A tk1, tk2 \in TokenInputs :
            (~jwt_decode(tk1, now).ok /\ ~jwt_decode(tk2, now).ok) =>
                LET a == read_users_me(DATABASE_AVAILABLE, tk1, users, now,
                                       db_ok)
                    b == read_users_me(DATABASE_AVAILABLE, tk2, users, now,
                                       db_ok)
                IN  /\ a = b
                    /\ a.status = 401
                    /\ a.user = NoUser
                    /\ a.fields = {}

\* C7's case: the token of a registered user has expired and been refused, so
\* the three ways of failing all exist at this instant.
C7_Witness ==
    \E r \in Reqs :
        /\ Done(r, "me")
        /\ req[r].token.sig = "good"
        /\ UsernameTaken(users, req[r].token.sub)
        /\ jwt_decode(req[r].token, now).error = "ExpiredSignatureError"
        /\ resp[r].status = 401

(***************************************************************************)
(* C8 as claimed.  Every failed /auth/me gets the one Unauthorized         *)
(* response: the 401 a request has received has the status and the body of *)
(* the 401 any other credential would receive.                             *)
(***************************************************************************)
C8_AsClaimed ==
    \A r \in Reqs, tk \in TokenInputs :
        LET other == read_users_me(DATABASE_AVAILABLE, tk, users, now, TRUE)
        IN  (Done(r, "me") /\ resp[r].status = 401 /\ other.status = 401)
            => other.detail = resp[r].detail

(***************************************************************************)
(* C9 as claimed.  A successful register is answered 201 with the user     *)
(* record without its password hash, and no response of register, login or *)
(* /auth/me carries a password hash.                                       *)
(***************************************************************************)
C9_AsClaimed ==
    \A r \in Reqs :
        /\ Registered(r) => resp[r].status = 201
        /\ (pc[r] = "done" /\ req[r].kind \in {"register", "login", "me"})
           => "hashed_password" \notin resp[r].fields

(***************************************************************************)
(* C10.  The storage mode never changes after startup, and with the        *)
(* durable backend no request is answered from memory: a feedback request  *)
(* that fails against the backend is answered 500 and stores nothing.      *)
(***************************************************************************)
C10_ModeDecidedOnce ==
    [][/\ DATABASE_AVAILABLE' = DATABASE_AVAILABLE
       /\ DATABASE_AVAILABLE' =>
            \A r \in Reqs :
                /\ resp'[r].message = ""
                /\ (pc[r] = "await_body" /\ pc'[r] = "done" /\ ~db_ok) =>
                      /\ resp'[r].status \in {400, 500}
                      /\ feedbacks' = feedbacks
                      /\ users' = users]_vars

\* C10's case: with the durable backend chosen, a feedback request has failed
\* against a backend that does not answer.
C10_Witness ==
    \E r \in Reqs :
        /\ DATABASE_AVAILABLE
        /\ ~db_ok
        /\ Done(r, "feedback")
        /\ req[r].body.shape = "object"
        /\ resp[r].status = 500

\* Slot r holds the response that accepts a create of the given kind.
Accepted(r, kind) == Done(r, kind) /\ resp[r].status = 200

\* The record the response of slot r carries.
Record(r) == resp[r].records[1]

CreateKinds == {"feedback", "network_log"}

ListKinds == {"list_feedback", "list_network_logs"}

(***************************************************************************)
(* C11 as claimed.  Without the durable backend, the identifiers given to  *)
(* created feedback and network-log records start at 1 and no two creates  *)
(* accepted in the same collection, concurrent or not, are given the same  *)
(* identifier.                                                             *)
(***************************************************************************)
C11_AsClaimed ==
    ~DATABASE_AVAILABLE =>
        \A r1, r2 \in Reqs, kind \in CreateKinds :
            (r1 # r2 /\ Accepted(r1, kind) /\ Accepted(r2, kind)) =>
                /\ Record(r1).id >= 1
                /\ Record(r2).id >= 1
                /\ Record(r1).id # Record(r2).id

\* The list request of the collection a create of the given kind writes to.
ListOf(kind) == IF kind = "feedback" THEN "list_feedback"
                ELSE "list_network_logs"

\* The step in which slot r, holding the response that accepted a create of
\* the given kind, serves the next list request of that collection.
ListsAfterCreate(r, kind) ==
    /\ Accepted(r, kind)
    /\ pc'[r] = "done"
    /\ req'[r].kind = ListOf(kind)
    /\ resp'[r].status = 200

(***************************************************************************)
(* C12 as claimed.  In either storage mode a list (offset 0, limit 100, as *)
(* the handlers fix them) answers with at most limit records, and a record *)
(* that a create has just accepted appears in the next list of its         *)
(* collection.                                                             *)
(***************************************************************************)
C12_AsClaimed ==
    [][\A r \in Reqs, kind \in CreateKinds :
         ListsAfterCreate(r, kind) =>
            /\ Len(resp'[r].records) <= 100
            /\ \E i \in DOMAIN resp'[r].records :
                  resp'[r].records[i].id = Record(r).id]_vars

(***************************************************************************)
(* C13 as claimed.  Without the durable backend, every successful response *)
(* of the feedback and network-log endpoints, create and list alike, says  *)
(* in its payload that it was served from memory.                          *)
(***************************************************************************)
C13_AsClaimed ==
    ~DATABASE_AVAILABLE =>
        \A r \in Reqs :
            (/\ pc[r] = "done"
             /\ req[r].kind \in CreateKinds \cup ListKinds
             /\ resp[r].status = 200)
            => resp[r].message # ""

\* The request of slot r carries a token that authenticates as user u.
AuthenticatedAs(r, u) ==
    /\ req[r].token # NoToken
    /\ ValidatesTo(req[r].token, now, u)

(***************************************************************************)
(* C14 as claimed.  With the durable backend, a record created by a        *)
(* request authenticated as user U is owned by U, and a list request       *)
(* authenticated as U returns only records owned by U.                     *)
(***************************************************************************)
C14_AsClaimed ==
    DATABASE_AVAILABLE =>
        \A r \in Reqs, u \in Names :
            (/\ pc[r] = "done"
             /\ req[r].kind \in CreateKinds \cup ListKinds
             /\ resp[r].status = 200
             /\ AuthenticatedAs(r, u))
            => \A i \in DOMAIN resp[r].records :
                  resp[r].records[i].user_id =
                      get_user_by_username(users, u).id

\* Some user record has the identifier the row names as its owner.
HasOwner(row) == \E j \in DOMAIN users : users[j].id = row.user_id

(***************************************************************************)
(* C15.  Every stored feedback and network-log record names as its owner   *)
(* the identifier of a user record that exists; a create whose owner       *)
(* matches no user record stores nothing and is answered with an error.    *)
(* Without the durable backend no record is stored at all.                 *)
(***************************************************************************)
C15_OwnersExist ==
    /\ \A i \in DOMAIN feedbacks : HasOwner(feedbacks[i])
    /\ \A i \in DOMAIN network_logs : HasOwner(network_logs[i])
    /\ ~DATABASE_AVAILABLE => feedbacks = <<>> /\ network_logs = <<>>
    /\ \A r \in Reqs, kind \in CreateKinds :
         (DATABASE_AVAILABLE /\ Accepted(r, kind)) => HasOwner(Record(r))

\* C15's case: with no user registered yet, a well-formed feedback has been
\* refused by a backend that answers, and nothing was stored.
C15_Witness ==
    \E r \in Reqs :
        /\ DATABASE_AVAILABLE
        /\ db_ok
        /\ users = <<>>
        /\ Done(r, "feedback")
        /\ req[r].body.shape = "object"
        /\ FeedbackCreate(req[r].body)
        /\ resp[r].status = 500
        /\ feedbacks = <<>>

\* The body of request q is not JSON, or lacks a field its schema requires.
BadBody(q) ==
    LET parsed == parse_body(q.body)
    IN  \/ ~parsed.ok
        \/ q.kind = "register" /\ ~UserCreate(parsed.data)
        \/ q.kind = "login" /\ ~UserLogin(parsed.data)
        \/ q.kind = "feedback" /\ ~FeedbackCreate(parsed.data)
        \/ q.kind = "network_log" /\ ~NetworkLogCreate(parsed.data)

(***************************************************************************)
(* C16 as claimed.  With the durable backend answering, a request whose    *)
(* body is malformed or lacks a required field is answered with a client   *)
(* error (4xx), never with a server error, and creates no record.          *)
(***************************************************************************)
C16_AsClaimed ==
    [][\A r \in Reqs :
         (/\ DATABASE_AVAILABLE
          /\ db_ok
          /\ pc[r] = "await_body"
          /\ pc'[r] = "done"
          /\ BadBody(req[r]))
         => /\ resp'[r].status \in 400..499
            /\ users' = users
            /\ feedbacks' = feedbacks
            /\ network_logs' = network_logs]_vars

\* The providers with at least one stored network log at the location.
ProvidersAt(location) ==
    { network_logs[i].provider :
        i \in { j \in DOMAIN network_logs :
                  network_logs[j].location = location } }

\* The place of a provider name in ascending order of names.
NameRank(provider) == IF provider = "mtn" THEN 1 ELSE 2

\* Entries in descending order of score, equal scores in ascending order of
\* provider name.
Ranked(entries) ==
    \A i, j \in DOMAIN entries :
        i < j =>
            \/ entries[i].score > entries[j].score
            \/ /\ entries[i].score = entries[j].score
               /\ NameRank(entries[i].provider) < NameRank(entries[j].provider)

(***************************************************************************)
(* C17 as claimed.  A recommendation request for a location is answered,   *)
(* without error, with one entry per provider that has a network log at    *)
(* exactly that location, in descending order of score and, for equal      *)
(* scores, ascending order of provider name; with the empty sequence when  *)
(* no log matches the location.                                            *)
(***************************************************************************)
C17_AsClaimed ==
    [][\A r \in Reqs :
         (/\ req'[r].kind = "recommendations"
          /\ pc'[r] = "done"
          /\ <<req[r], resp[r]>> # <<req'[r], resp'[r]>>)
         => LET entries == resp'[r].records
                matching == ProvidersAt(req'[r].location)
            IN  /\ resp'[r].status = 200
                /\ Len(entries) = Cardinality(matching)
                /\ { entries[i].provider : i \in DOMAIN entries } = matching
                /\ Ranked(entries)
                /\ matching = {} => entries = <<>>]_vars

AuthKinds == {"register", "login", "me"}

\* The response of the auth paths without the durable backend.
Unavailable == HTTPException(503, "Database not available")

(***************************************************************************)
(* C18 as claimed.  Without the durable backend every call to              *)
(* /auth/register, /auth/login and /auth/me is answered 503, whatever its  *)
(* body or token, and there is no user record.                             *)
(***************************************************************************)
C18_AsClaimed ==
    ~DATABASE_AVAILABLE =>
        /\ users = <<>>
        /\ \A r \in Reqs :
             (pc[r] = "done" /\ req[r].kind \in AuthKinds)
             => resp[r] = Unavailable

(***************************************************************************)
(* C18, amended.  Without the durable backend every call to                *)
(* /auth/register and /auth/login, and every call to /auth/me that carries *)
(* a bearer credential, is answered 503 whatever its body or token; a call *)
(* to /auth/me without a bearer credential is refused with a client error  *)
(* before that.  No user is created, no token is issued and no user is     *)
(* resolved.                                                               *)
(***************************************************************************)
C18_DegradedAuth ==
    ~DATABASE_AVAILABLE =>
        /\ users = <<>>
        /\ \A r \in Reqs :
             (pc[r] = "done" /\ req[r].kind \in AuthKinds) =>
                /\ resp[r].user = NoUser
                /\ resp[r].token = NoToken
                /\ IF req[r].kind = "me" /\ req[r].token = NoToken
                   THEN resp[r].status \in 400..499
                   ELSE resp[r] = Unavailable

\* C18's case: without the durable backend, /auth/me has answered 503 to a
\* token that is well formed and signed with the key.
C18_Witness ==
    \E r \in Reqs :
        /\ ~DATABASE_AVAILABLE
        /\ Done(r, "me")
        /\ req[r].token.sig = "good"
        /\ req[r].token.sub \in Names
        /\ resp[r] = Unavailable

(***************************************************************************)
(* C19.  A register that collides on both the username and the email is    *)
(* rejected as a username collision; a register that ends in an error      *)
(* response (400 or 500) leaves the user records exactly as they were; and *)
(* a register changes the user records only by appending the one record it *)
(* answers with, after finding both the username and the email free.       *)
(***************************************************************************)
C19_RegisterOrder ==
    [][\A r \in Reqs :
         RegisterCompletes(r) =>
            /\ (/\ db_ok
                /\ Complete(req[r].body)
                /\ UsernameTaken(users, Data(r).username)
                /\ EmailTaken(users, Data(r).email))
               => /\ resp'[r].status = 400
                  /\ resp'[r].detail = "Username already registered"
            /\ resp'[r].status \in {400, 500} => users' = users
            /\ users' # users =>
                  /\ ~UsernameTaken(users, Data(r).username)
                  /\ ~EmailTaken(users, Data(r).email)
                  /\ resp'[r].status = 200
                  /\ users' = Append(users, resp'[r].user)]_vars

\* C19's case: a register whose username is held by one record and whose
\* email is held by another has been rejected for its username.
C19_Witness ==
    \E r \in Reqs, i, j \in DOMAIN users :
        /\ Done(r, "register")
        /\ i # j
        /\ users[i].username = Data(r).username
        /\ users[j].email = Data(r).email
        /\ resp[r].status = 400
        /\ resp[r].detail = "Username already registered"
=============================================================================
